---------------------------- MODULE Spec2Model ----------------------------
(***************************************************************************)
(* The UnreadMessages widget (src/ts/widgets/UnreadMessages) with its two  *)
(* collaborators, the SSE observable (src/ts/utils/sseObservable.ts) and   *)
(* the MessageService (src/ts/services/MessageService.ts).                 *)
(*                                                                         *)
(* One widget instance is modelled.  Its RxJS pipeline                     *)
(*   merge(sse$, interval(30000).pipe(startWith(0)))                       *)
(*     .pipe(switchMap(() => getUnreadMessages().pipe(catchError)),        *)
(*           catchError)                                                   *)
(*     .subscribe({next})                                                  *)
(* is unfolded into the events that drive it: a push event, a timer        *)
(* period, the settlement of a fetch promise, an SSE connection error and  *)
(* destroy().  Every handler runs to completion (single-threaded event     *)
(* loop), so every action is one whole handler.                            *)
(*                                                                         *)
(* A message is represented by its id.  The texts of the two error items   *)
(* are abbreviated: "retry" is 'Не удалось загрузить сообщения. Повторная  *)
(* попытка...', "unavailable" is 'Сервис временно недоступен'.             *)
(***************************************************************************)
EXTENDS Integers, Sequences, FiniteSets, TLC

\* ------------------------------------------------------------------ bounds
\* message ids are 1..MaxId
MaxId == 2
\* longest message sequence a fetch returns
MaxMsgs == 2
\* fetch promises that can be unsettled at the same time
MaxPending == 3
\* subscription objects that can be referenced at the same time
MaxSubs == 2
MaxStrLen == 16

\* the default of truncateText's maxLength parameter
DefaultMaxLength == 15

Ids == 1..MaxId
SubIds == 1..MaxSubs

\* ------------------------------------------------------------------- state
VARIABLES
  constructed,          \* the constructor has run
  _container,           \* TRUE when _addContainer bound an HTMLElement
  built,                \* _render has created the title and the list
  thrown,               \* an exception escaped to the caller of the
                        \* constructor or of destroy()
  _subscription,        \* 0 is null, otherwise the Subscription object
  live,                 \* Subscription objects that are not closed
  sseOpen,              \* subscriptions whose EventSource is open
  inner,                \* per subscription: switchMap listens to a fetch
  pending,              \* per subscription: the unsettled fetch promises
                        \* it started
  orphans,              \* unsettled fetch promises of closed subscriptions
  list,                 \* children of _messageList, top to bottom
  counter,              \* the number shown in _messageCounter
  _existingMessageIds,
  _isInitialLoad,
  unhandled,            \* an error was reported to the host asynchronously
  passes,               \* history: render passes that populated the list
                        \* (saturating)
  pipeFailed,           \* history: the outer catchError has run
  fails,                \* history: failed fetches handled (saturating)
  destroyCalls,         \* history: destroy() calls (saturating)
  last,                 \* history: the handler that ran last
  answered,             \* history: the response and the outcome that
                        \* reached the pipeline last
  subject,              \* the argument of a truncateText call
  truncated,            \* what the call returned
  retruncated           \* what truncateText returned for that result

pipeVars == <<_subscription, live, sseOpen, inner, pending, orphans>>
domVars == <<list, counter, _existingMessageIds, _isInitialLoad>>
histVars == <<passes, pipeFailed, fails, destroyCalls, last, answered>>
strVars == <<subject, truncated, retruncated>>
vars == <<constructed, _container, built, thrown, pipeVars, domVars,
          unhandled, histVars, strVars>>

\* the history counters tell 0, 1 and 'two or more' apart
Bump(n) == IF n < 2 THEN n + 1 ELSE n

\* ----------------------------------------------------------------- values
RECURSIVE SeqsUpTo(_)
SeqsUpTo(n) ==
  IF n = 0 THEN {<<>>}
  ELSE LET shorter == SeqsUpTo(n - 1)
       IN shorter \cup {Append(q, x) : q \in shorter, x \in Ids}

Range(q) == {q[i] : i \in 1..Len(q)}

\* message sequences a fetch can return: ids unique within one snapshot
MessageSeqs == {q \in SeqsUpTo(MaxMsgs) : Cardinality(Range(q)) = Len(q)}

\* what the server can answer to GET /messages/unread: nothing (transport
\* error), a non-OK status, an OK status with a body that is not JSON, with
\* a JSON body that has no 'messages' member, or with the envelope
Responses ==
  {[kind |-> k, msgs |-> <<>>] :
     k \in {"network", "status", "unparsable", "nomessages"}}
    \cup {[kind |-> "envelope", msgs |-> q] : q \in MessageSeqs}

\* MessageService.getUnreadMessages: what the promise is settled with.
\* fetch rejects, '!response.ok' throws and response.json() rejects: the
\* promise is rejected ("fail").  Otherwise it is resolved with
\* data.messages, which is undefined ("undef") for a body without the member.
GetUnreadMessages(resp) ==
  CASE resp.kind = "network" -> [tag |-> "fail", msgs |-> <<>>]
    [] resp.kind = "status" -> [tag |-> "fail", msgs |-> <<>>]
    [] resp.kind = "unparsable" -> [tag |-> "fail", msgs |-> <<>>]
    [] resp.kind = "nomessages" -> [tag |-> "undef", msgs |-> <<>>]
    [] resp.kind = "envelope" -> [tag |-> "ok", msgs |-> resp.msgs]

Outcomes == {GetUnreadMessages(resp) : resp \in Responses}

NothingAnswered == [kind |-> "none", tag |-> "none", msgs |-> <<>>]
StreamFailed == [kind |-> "none", tag |-> "stream", msgs |-> <<>>]
Answer(resp) ==
  [kind |-> resp.kind, tag |-> GetUnreadMessages(resp).tag,
   msgs |-> GetUnreadMessages(resp).msgs]

LoaderItem == [kind |-> "loader", id |-> 0, new |-> FALSE, text |-> ""]
EmptyItem == [kind |-> "empty", id |-> 0, new |-> FALSE, text |-> ""]
ErrorItem(text) == [kind |-> "error", id |-> 0, new |-> FALSE, text |-> text]

\* _createMessageItem, with the outcome of shouldAnimate recorded on it
MessageItem(id, isNew) ==
  [kind |-> "msg", id |-> id, new |-> isNew, text |-> ""]

\* ---------------------------------------------------------------- strings
\* A string is a sequence of characters; one letter and one blank stand for
\* all characters, and the ellipsis is a character no subject contains.
Blank == " "
Chars == {"a", Blank}
Ellipsis == "ellipsis"

Strings == UNION {[1..n -> Chars] : n \in 0..MaxStrLen}

\* String.prototype.substring(0, end)
Substring(text, end) ==
  SubSeq(text, 1, IF end < Len(text) THEN end ELSE Len(text))

RECURSIVE TrimStart(_)
TrimStart(text) ==
  IF text # <<>> /\ Head(text) = Blank THEN TrimStart(Tail(text)) ELSE text

RECURSIVE TrimEnd(_)
TrimEnd(text) ==
  IF text # <<>> /\ text[Len(text)] = Blank
  THEN TrimEnd(SubSeq(text, 1, Len(text) - 1))
  ELSE text

\* String.prototype.trim
Trim(text) == TrimEnd(TrimStart(text))

\* variant: the cut is not trimmed
truncateTextUntrimmed(text, maxLength) ==
  IF Len(text) <= maxLength THEN text
  ELSE Append(Substring(text, maxLength), Ellipsis)

\* variant: no early return for a text that is short enough
truncateTextAlwaysCuts(text, maxLength) ==
  Append(Trim(Substring(text, maxLength)), Ellipsis)

\* formatters: truncateText
truncateText(text, maxLength) ==
  IF Len(text) <= maxLength THEN text
  ELSE Append(Trim(Substring(text, maxLength)), Ellipsis)

\* ------------------------------------------------------ the DOM operations
\* The DOM state is passed around as a record D with the fields
\* list, counter, ids (_existingMessageIds), init (_isInitialLoad),
\* unhandled and passes.

Dom == [list |-> list, counter |-> counter, ids |-> _existingMessageIds,
        init |-> _isInitialLoad, unhandled |-> unhandled,
        passes |-> passes]

\* variant: no placeholder, the list stays as it is
ShowLoaderNothing(D) == D

\* _showLoader
ShowLoader(D) == [D EXCEPT !.list = <<LoaderItem>>]

ShowError(D, text) == [D EXCEPT !.list = <<ErrorItem(text)>>]

\* variant: every item rendered after the initial load is animated
ShouldAnimateAfterInitial(D, id) == ~D.init

ShouldAnimate(D, id) == ~D.init /\ id \notin D.ids

\* variant: the list keeps what it showed
ClearListSkipped(D) == D

\* this._messagesList.innerHTML = ''
ClearList(D) == [D EXCEPT !.list = <<>>]

\* variant: the item goes to the bottom of the list
PrependAppends(item, children) == Append(children, item)

\* this._messagesList.prepend(messageItem)
Prepend(item, children) == <<item>> \o children

\* messages.forEach: every item is prepended to the children the list has
RECURSIVE ForEachPrepend(_, _, _)
ForEachPrepend(D, messages, children) ==
  IF messages = <<>> THEN children
  ELSE ForEachPrepend(D, Tail(messages),
         Prepend(MessageItem(Head(messages),
                             ShouldAnimate(D, Head(messages))),
                 children))

\* variant: the ids of the pass are added to the ids seen before
UpdateStateKeepsOldIds(D, currentIds) ==
  [D EXCEPT !.ids = @ \cup currentIds, !.init = FALSE]

\* variant: the initial load is never declared over
UpdateStateStaysInitial(D, currentIds) == [D EXCEPT !.ids = currentIds]

\* 'this._existingMessageIds = currentIds; this._isInitialLoad = false'
UpdateState(D, currentIds) == [D EXCEPT !.ids = currentIds, !.init = FALSE]

\* variant: the empty pass also ends the initial load and resets the ids
RenderMessagesEmptyEndsInitial(D, messages) ==
  IF Len(messages) = 0
  THEN [D EXCEPT !.list = Append(ClearList(D).list, EmptyItem),
                 !.ids = {}, !.init = FALSE]
  ELSE UpdateState(
         [D EXCEPT !.list = ForEachPrepend(D, messages, ClearList(D).list),
                   !.passes = Bump(@)],
         Range(messages))

\* _renderMessages: the empty pass returns before the state is updated
RenderMessages(D, messages) ==
  IF Len(messages) = 0
  THEN [D EXCEPT !.list = Append(ClearList(D).list, EmptyItem)]
  ELSE UpdateState(
         [D EXCEPT !.list = ForEachPrepend(D, messages, ClearList(D).list),
                   !.passes = Bump(@)],
         Range(messages))

UpdateMessageCounter(D, count) == [D EXCEPT !.counter = count]

\* the subscriber's next handler
NextHandler(D, messages) ==
  UpdateMessageCounter(RenderMessages(D, messages), Len(messages))

\* next(undefined): _renderMessages clears the list and then throws on
\* messages.length; the counter is not reached and RxJS reports the error
\* to the host asynchronously
NextHandlerUndefined(D) == [ClearList(D) EXCEPT !.unhandled = TRUE]

\* variant: the handler also forgets what has been rendered
CatchFetchErrorForgets(D) ==
  [NextHandler(ShowError(D, "retry"), <<>>)
     EXCEPT !.ids = {}, !.init = TRUE]

\* inner catchError: _showError, then of([]) goes to the next handler
CatchFetchError(D) == NextHandler(ShowError(D, "retry"), <<>>)

\* outer catchError: _showError, then of([]) goes to the next handler
CatchStreamError(D) == NextHandler(ShowError(D, "unavailable"), <<>>)

\* ------------------------------------------------- the pipeline operations
\* The pipeline state is passed around as a record P with the fields
\* live, sseOpen, inner, pending and orphans.

Pipe == [live |-> live, sseOpen |-> sseOpen, inner |-> inner,
         pending |-> pending, orphans |-> orphans]

RECURSIVE SumOver(_, _)
SumOver(f, S) ==
  IF S = {} THEN 0
  ELSE LET x == CHOOSE y \in S : TRUE IN f[x] + SumOver(f, S \ {x})

\* fetch promises that are not settled yet
Unsettled(P) == P.orphans + SumOver(P.pending, SubIds)

\* unsettled fetches of subscription s that switchMap has dropped
Dropped(P, s) == P.pending[s] - (IF P.inner[s] THEN 1 ELSE 0)

\* variant: the subscribe function returns no teardown
CloseEventSourceNever(open, s) == open

\* the teardown of the Observable of createSseObservable
CloseEventSource(open, s) == open \ {s}

\* variant: only the push source is torn down, the timer and the inner
\* subscription go on
UnsubscribeSourceOnly(P, s) ==
  [P EXCEPT !.sseOpen = CloseEventSource(@, s)]

\* Subscription.unsubscribe(): closes the subscription with its timer, runs
\* the teardown of sse$ and drops the inner subscription of switchMap; the
\* promises it started stay unsettled, with nobody listening
Unsubscribe(P, s) ==
  [P EXCEPT !.live = @ \ {s},
            !.sseOpen = CloseEventSource(@, s),
            !.inner = [@ EXCEPT ![s] = FALSE],
            !.pending = [@ EXCEPT ![s] = 0],
            !.orphans = @ + P.pending[s]]

\* a subscription object nothing refers to any more
FreeSubs == {s \in SubIds : /\ s # _subscription
                            /\ s \notin live
                            /\ s \notin sseOpen
                            /\ pending[s] = 0}
NewSub == CHOOSE s \in FreeSubs : \A t \in FreeSubs : s <= t

\* variant: a tick that finds a fetch of the subscription unsettled
\* listens to that one and starts none
StartFetchUnlessBusy(P, s) ==
  IF P.pending[s] > 0
  THEN [P EXCEPT !.inner = [@ EXCEPT ![s] = TRUE]]
  ELSE [P EXCEPT !.pending = [@ EXCEPT ![s] = @ + 1],
                 !.inner = [@ EXCEPT ![s] = TRUE]]

\* switchMap on a tick: drop the previous inner subscription, call
\* getUnreadMessages() and listen to the promise it returns
StartFetch(P, s) ==
  [P EXCEPT !.pending = [@ EXCEPT ![s] = @ + 1],
            !.inner = [@ EXCEPT ![s] = TRUE]]

\* variant: mergeMap in place of switchMap, earlier fetches stay subscribed
DeliversAnyInner(P, s, current) == s \in P.live

\* does the settlement of a fetch of subscription s reach the subscriber?
\* current: it is the fetch switchMap listens to
Delivers(P, s, current) == s \in P.live /\ current

\* a promise of subscription s is settled; when it was the one switchMap
\* listened to, the inner observable completes
Settle(P, s, current) ==
  [P EXCEPT !.pending = [@ EXCEPT ![s] = @ - 1],
            !.inner = [@ EXCEPT ![s] = @ /\ ~current]]

\* variant: the handler leaves the source subscribed
TerminateStreamKeepsSource(P, s) == P

\* the outer catchError unsubscribes from the source; the replacement
\* of([]) completes, which closes the subscription
TerminateStream(P, s) == Unsubscribe(P, s)

\* variant: the prior handle is overwritten without being cancelled
CancelPriorSkipped(P, sub) == P

\* 'if (this._subscription) this._subscription.unsubscribe()'
CancelPrior(P, sub) == IF sub # 0 THEN Unsubscribe(P, sub) ELSE P

\* variant: no inner catchError, the rejection reaches the outer catchError
OnFetchErrorEscapes(P, D, s) ==
  [pipe |-> TerminateStream(P, s), dom |-> CatchStreamError(D),
   failed |-> TRUE]

\* the promise that switchMap listens to on subscription s is rejected: the
\* inner catchError handles it, nothing reaches the outer catchError and
\* the merged trigger stays subscribed
OnFetchError(P, D, s) ==
  [pipe |-> P, dom |-> CatchFetchError(D), failed |-> FALSE]

\* variant: onerror calls observer.error, which the outer catchError gets
OnSseErrorPropagates(P, D, s) ==
  [pipe |-> TerminateStream(P, s), dom |-> CatchStreamError(D),
   failed |-> TRUE]

\* eventSource.onerror on subscription s: console.warn; observer.error is
\* not called, so nothing reaches the pipeline
OnSseError(P, D, s) == [pipe |-> P, dom |-> D, failed |-> FALSE]

\* variant: only the startWith(0) tick, no period after it
TimerStops(P, s) == FALSE

\* interval(30_000) keeps firing for as long as the subscription is live
TimerRuns(P, s) == s \in P.live

\* ------------------------------------------------------------------- Init
InitWidget ==
  /\ constructed = FALSE
  /\ _container = FALSE
  /\ built = FALSE
  /\ thrown = FALSE
  /\ _subscription = 0
  /\ live = {}
  /\ sseOpen = {}
  /\ inner = [s \in SubIds |-> FALSE]
  /\ pending = [s \in SubIds |-> 0]
  /\ orphans = 0
  /\ list = <<>>
  /\ counter = 0
  /\ _existingMessageIds = {}
  /\ _isInitialLoad = TRUE
  /\ unhandled = FALSE
  /\ passes = 0
  /\ pipeFailed = FALSE
  /\ fails = 0
  /\ destroyCalls = 0
  /\ last = "none"
  /\ answered = NothingAnswered
  /\ truncated = <<>>
  /\ retruncated = <<>>

Init == InitWidget /\ subject = <<>>

SetDom(D) ==
  /\ list' = D.list
  /\ counter' = D.counter
  /\ _existingMessageIds' = D.ids
  /\ _isInitialLoad' = D.init
  /\ unhandled' = D.unhandled
  /\ passes' = D.passes

SetPipe(P) ==
  /\ live' = P.live
  /\ sseOpen' = P.sseOpen
  /\ inner' = P.inner
  /\ pending' = P.pending
  /\ orphans' = P.orphans

\* variant: the connection is not opened when the source is subscribed
OpenEventSourceLater(open, s) == open

\* 'new EventSource(url)' in the subscribe function of sse$
OpenEventSource(open, s) == open \cup {s}

\* variant: interval(30_000) without startWith(0)
StartWithNothing(P, s) == P

\* startWith(0): the timer source emits a tick while it is being subscribed
StartWith(P, s) == StartFetch(P, s)

\* ---------------------------------------------------------------- actions
\* variant: _init without the container check
InitProceedsAlways(container) == TRUE

\* _init: 'if (!this._container) return'
InitProceeds(container) == container

\* _loadMessages.  esThrows: 'new EventSource(url)' throws in the subscribe
\* function of sse$; svcThrows: getUnreadMessages() throws synchronously on
\* the tick that startWith(0) emits during subscribe.  Both errors reach the
\* outer catchError.
LoadMessages(esThrows, svcThrows) ==
  LET P0 == CancelPrior(Pipe, _subscription)
      D1 == IF Len(list) = 0 THEN ShowLoader(Dom) ELSE Dom
      s == NewSub
      P1 == [P0 EXCEPT !.live = @ \cup {s},
                       !.sseOpen = IF esThrows THEN @
                                   ELSE OpenEventSource(@, s)]
  IN /\ _subscription' = s
     /\ IF esThrows \/ svcThrows
        THEN /\ SetPipe(TerminateStream(P1, s))
             /\ SetDom(CatchStreamError(D1))
             /\ pipeFailed' = TRUE
             /\ answered' = StreamFailed
        ELSE /\ SetPipe(StartWith(P1, s))
             /\ SetDom(D1)
             /\ pipeFailed' = FALSE
             /\ UNCHANGED answered
     /\ fails' = 0

\* new UnreadMessages(selector): _addContainer, then _init
Construct(found, esThrows, svcThrows) ==
  /\ ~constructed
  /\ constructed' = TRUE
  /\ _container' = found
  /\ last' = "construct"
  /\ UNCHANGED <<destroyCalls, strVars>>
  /\ IF ~InitProceeds(found)
     THEN UNCHANGED <<built, thrown, pipeVars, domVars, unhandled,
                      passes, pipeFailed, fails, answered>>
     ELSE IF ~found
     THEN \* _render: this._container.append on undefined is a TypeError
          /\ thrown' = TRUE
          /\ UNCHANGED <<built, pipeVars, domVars, unhandled, passes,
                         pipeFailed, fails, answered>>
     ELSE /\ built' = TRUE
          /\ UNCHANGED thrown
          /\ LoadMessages(esThrows, svcThrows)

\* one tick of trigger$ on a live subscription s
Tick(s, svcThrows) ==
  LET P0 == [Pipe EXCEPT !.inner = [@ EXCEPT ![s] = FALSE]]
  IN IF svcThrows
     THEN /\ SetPipe(TerminateStream(P0, s))
          /\ SetDom(CatchStreamError(Dom))
          /\ pipeFailed' = TRUE
          /\ answered' = StreamFailed
     ELSE /\ Unsettled(Pipe) < MaxPending
          /\ SetPipe(StartFetch(P0, s))
          /\ UNCHANGED <<domVars, unhandled, passes, pipeFailed, answered>>

\* the 'unread_update' listener of the EventSource: observer.next(e)
PushEvent(s, svcThrows) ==
  /\ s \in sseOpen
  /\ last' = "push"
  /\ IF s \in live
     THEN Tick(s, svcThrows)
     ELSE UNCHANGED <<live, sseOpen, inner, pending, orphans, domVars,
                      unhandled, passes, pipeFailed, answered>>
  /\ UNCHANGED <<constructed, _container, built, thrown, _subscription,
                 fails, destroyCalls, strVars>>

\* one period of interval(30_000)
TimerTick(s, svcThrows) ==
  /\ TimerRuns(Pipe, s)
  /\ last' = "timer"
  /\ Tick(s, svcThrows)
  /\ UNCHANGED <<constructed, _container, built, thrown, _subscription,
                 fails, destroyCalls, strVars>>

\* eventSource.onerror: console.warn and nothing else
SseError(s) ==
  /\ s \in sseOpen
  /\ last' = "sseerror"
  /\ LET r == OnSseError(Pipe, Dom, s)
     IN /\ SetPipe(r.pipe)
        /\ SetDom(r.dom)
        /\ pipeFailed' = (pipeFailed \/ r.failed)
        /\ answered' = IF r.failed THEN StreamFailed ELSE answered
  /\ UNCHANGED <<constructed, _container, built, thrown, _subscription,
                 fails, destroyCalls, strVars>>

\* the server answers a fetch of subscription s with resp and the promise
\* is settled; current: it is the one switchMap listens to
FetchSettles(s, current, resp) ==
  LET o == GetUnreadMessages(resp) IN
  /\ IF current THEN inner[s] ELSE Dropped(Pipe, s) > 0
  /\ IF Delivers(Pipe, s, current)
     THEN /\ last' = o.tag
          /\ answered' = Answer(resp)
          /\ CASE o.tag = "ok" ->
                    /\ SetPipe(Settle(Pipe, s, current))
                    /\ SetDom(NextHandler(Dom, o.msgs))
                    /\ UNCHANGED <<fails, pipeFailed>>
               [] o.tag = "undef" ->
                    /\ SetPipe(Settle(Pipe, s, current))
                    /\ SetDom(NextHandlerUndefined(Dom))
                    /\ UNCHANGED <<fails, pipeFailed>>
               [] o.tag = "fail" ->
                    LET r == OnFetchError(Settle(Pipe, s, current), Dom, s)
                    IN /\ SetPipe(r.pipe)
                       /\ SetDom(r.dom)
                       /\ pipeFailed' = (pipeFailed \/ r.failed)
                       /\ fails' = Bump(fails)
     ELSE /\ last' = "stale"
          /\ SetPipe(Settle(Pipe, s, current))
          /\ UNCHANGED <<domVars, unhandled, passes, fails, pipeFailed,
                         answered>>
  /\ UNCHANGED <<constructed, _container, built, thrown, _subscription,
                 destroyCalls, strVars>>

\* a fetch promise whose subscription has been closed is settled: the
\* subscriber of from(promise) is closed, the outcome goes nowhere
OrphanSettles ==
  /\ orphans > 0
  /\ orphans' = orphans - 1
  /\ last' = "stale"
  /\ UNCHANGED <<constructed, _container, built, thrown, _subscription,
                 live, sseOpen, inner, pending, domVars, unhandled, passes,
                 pipeFailed, fails, destroyCalls, answered, strVars>>

\* variant: destroy() without the null check; unsubscribe on null throws
DestroyEffectNoNullCheck ==
  IF _subscription # 0
  THEN [pipe |-> Unsubscribe(Pipe, _subscription), sub |-> 0, dom |-> Dom,
        thrown |-> FALSE]
  ELSE [pipe |-> Pipe, sub |-> _subscription, dom |-> Dom, thrown |-> TRUE]

\* variant: destroy() also empties the list
DestroyEffectUnrender ==
  IF _subscription # 0
  THEN [pipe |-> Unsubscribe(Pipe, _subscription), sub |-> 0,
        dom |-> [Dom EXCEPT !.list = <<>>], thrown |-> FALSE]
  ELSE [pipe |-> Pipe, sub |-> _subscription,
        dom |-> [Dom EXCEPT !.list = <<>>], thrown |-> FALSE]

\* what destroy() does: the new pipeline state, handle and DOM, and whether
\* it throws
DestroyEffect ==
  IF _subscription # 0
  THEN [pipe |-> Unsubscribe(Pipe, _subscription), sub |-> 0, dom |-> Dom,
        thrown |-> FALSE]
  ELSE [pipe |-> Pipe, sub |-> _subscription, dom |-> Dom, thrown |-> FALSE]

Destroy ==
  /\ constructed
  /\ ~thrown
  /\ SetPipe(DestroyEffect.pipe)
  /\ _subscription' = DestroyEffect.sub
  /\ SetDom(DestroyEffect.dom)
  /\ thrown' = DestroyEffect.thrown
  /\ destroyCalls' = Bump(destroyCalls)
  /\ last' = "destroy"
  /\ UNCHANGED <<constructed, _container, built, pipeFailed, fails,
                 answered, strVars>>

\* _loadMessages entered again on a functional widget.  The constructor is
\* its only caller in the repository, so this step is not part of Next; it
\* exercises the method's own re-entry case (the unsubscribe of the prior
\* handle, the loader only for a list without children).
Reload(esThrows, svcThrows) ==
  /\ constructed
  /\ built
  /\ FreeSubs # {}
  /\ Unsettled(Pipe) < MaxPending
  /\ LoadMessages(esThrows, svcThrows)
  /\ last' = "reload"
  /\ UNCHANGED <<constructed, _container, built, thrown, destroyCalls,
                 strVars>>

Next ==
  \/ \E found, esThrows, svcThrows \in BOOLEAN :
       Construct(found, esThrows, svcThrows)
  \/ \E s \in SubIds, svcThrows \in BOOLEAN : PushEvent(s, svcThrows)
  \/ \E s \in SubIds, svcThrows \in BOOLEAN : TimerTick(s, svcThrows)
  \/ \E s \in SubIds : SseError(s)
  \/ \E s \in SubIds, current \in BOOLEAN, resp \in Responses :
       FetchSettles(s, current, resp)
  \/ OrphanSettles
  \/ Destroy

Spec == Init /\ [][Next]_vars

NextReload ==
  \/ Next
  \/ \E esThrows, svcThrows \in BOOLEAN : Reload(esThrows, svcThrows)

SpecReload == Init /\ [][NextReload]_vars

\* The timer of a live subscription fires every 30 s whatever else happens,
\* and the browser settles every fetch promise in the end.  The model caps
\* the number of unsettled promises, which the program does not: a period
\* that falls on a full cap is taken when a promise has been settled, hence
\* the strong fairness of the timer.
FairSpec ==
  /\ Spec
  /\ SF_vars(\E s \in SubIds : TimerTick(s, FALSE))
  /\ WF_vars(\E s \in SubIds, current \in BOOLEAN, resp \in Responses :
               FetchSettles(s, current, resp))
  /\ WF_vars(OrphanSettles)

\* ---------------------------------------------- truncateText on its own
\* truncateText(subject) with the default maxLength, for every subject
CallTruncateText ==
  /\ last = "none"
  /\ truncated' = truncateText(subject, DefaultMaxLength)
  /\ last' = "truncate"
  /\ UNCHANGED <<constructed, _container, built, thrown, pipeVars, domVars,
                 unhandled, passes, pipeFailed, fails, destroyCalls,
                 answered, subject, retruncated>>

\* truncateText applied to what the first call returned
CallTruncateTextAgain ==
  /\ last = "truncate"
  /\ retruncated' = truncateText(truncated, DefaultMaxLength)
  /\ last' = "retruncate"
  /\ UNCHANGED <<constructed, _container, built, thrown, pipeVars, domVars,
                 unhandled, passes, pipeFailed, fails, destroyCalls,
                 answered, subject, truncated>>

InitTruncate == InitWidget /\ subject \in Strings

NextTruncate == CallTruncateText \/ CallTruncateTextAgain

SpecTruncate == InitTruncate /\ [][NextTruncate]_vars

TypeOK ==
  /\ constructed \in BOOLEAN /\ _container \in BOOLEAN /\ built \in BOOLEAN
  /\ thrown \in BOOLEAN /\ unhandled \in BOOLEAN
  /\ _subscription \in SubIds \cup {0}
  /\ live \subseteq SubIds /\ sseOpen \subseteq SubIds
  /\ inner \in [SubIds -> BOOLEAN]
  /\ pending \in [SubIds -> 0..MaxPending]
  /\ orphans \in 0..MaxPending
  /\ Unsettled(Pipe) <= MaxPending
  /\ \A s \in SubIds : inner[s] => (pending[s] > 0 /\ s \in live)
  /\ counter \in 0..MaxMsgs
  /\ _existingMessageIds \subseteq Ids
  /\ _isInitialLoad \in BOOLEAN

\* ------------------------------------------------------------- properties
renderVars == <<list, counter, _existingMessageIds, _isInitialLoad>>

\* everything but the history of destroy() calls and of the last handler
stateVars == <<constructed, _container, built, thrown, pipeVars, domVars,
               unhandled, passes, pipeFailed, fails, answered>>

MsgItems(l) == {i \in 1..Len(l) : l[i].kind = "msg"}

UnsettledNow == Unsettled(Pipe)

SettleTags == {"ok", "fail", "undef", "stale"}

\* the step settles a fetch of the live subscription s that a later tick
\* has made switchMap drop
SettlesDropped(s) ==
  /\ s \in live
  /\ last' \in SettleTags
  /\ pending'[s] = pending[s] - 1
  /\ inner'[s] = inner[s]

\* the step settles the fetch switchMap listens to on subscription s
SettlesCurrent(s) ==
  /\ s \in live
  /\ last' \in SettleTags
  /\ inner[s]
  /\ ~inner'[s]

\* C1: switch-latest.  The settlement of a fetch that a later tick has
\* superseded changes neither the list, the counter, the seen-id set nor
\* the initial-load flag, and a fetch outcome reaches the next handler only
\* when it is the outcome of the fetch switchMap currently listens to.
C1_SwitchLatest ==
  [][/\ \A s \in SubIds : SettlesDropped(s) => UNCHANGED renderVars
     /\ last' \in {"ok", "fail", "undef"}
          => \E s \in SubIds : SettlesCurrent(s)]_vars

\* a superseded fetch has been settled and discarded while the newer fetch
\* of the same live subscription is still unsettled
C1_Witness ==
  /\ last = "stale"
  /\ _subscription \in live
  /\ inner[_subscription]
  /\ list = <<LoaderItem>>

\* C2: a widget has at most one active update pipeline, the one its
\* subscription handle refers to, also when the load cycle is started again.
C2_OnePipeline ==
  /\ Cardinality(live) <= 1
  /\ Cardinality(sseOpen) <= 1
  /\ live \subseteq {_subscription}

\* a second load cycle was started while the first pipeline was live (its
\* fetch is still unsettled) and only the new one is active
C2_Witness ==
  /\ last = "reload"
  /\ live = {2}
  /\ _subscription = 2
  /\ destroyCalls = 0
  /\ ~unhandled
  /\ list = <<LoaderItem>>
  /\ orphans > 0

\* C3: once destroy() has returned, one or several times, the subscription
\* is cancelled and no push connection of the widget is open.
C3_DestroyClosesPush ==
  destroyCalls > 0 => (live = {} /\ sseOpen = {} /\ _subscription = 0)

\* destroy() called twice on a widget whose pipeline was live until then
C3_Witness ==
  /\ destroyCalls >= 2
  /\ built
  /\ ~pipeFailed
  /\ sseOpen = {}

\* C4: destroy() on a widget that is already destroyed (handle null)
\* changes no state and throws nothing.
C4_DestroyIdempotent ==
  [][(last' = "destroy" /\ destroyCalls > 0 /\ _subscription = 0)
       => UNCHANGED stateVars]_vars

\* destroy() has run at least twice on a functional widget, nothing thrown
C4_Witness ==
  /\ last = "destroy"
  /\ destroyCalls >= 2
  /\ built
  /\ ~thrown
  /\ list # <<>>

\* C5: destroy() leaves the rendered DOM untouched: list, counter, seen-id
\* set and initial-load flag are the same after it as before it.
C5_DestroyLeavesDom ==
  [][last' = "destroy"
       => UNCHANGED <<renderVars, built, constructed, _container>>]_vars

\* a widget destroyed while it shows rendered messages
C5_Witness ==
  /\ last = "destroy"
  /\ destroyCalls = 1
  /\ MsgItems(list) # {}
  /\ counter = Len(list)
  /\ _subscription = 0

\* C6: without a container the constructor throws nothing and the widget is
\* inert: no title or list, no subscription, no push connection, no fetch;
\* a later destroy() changes nothing.
C6_InertWidget ==
  /\ []((constructed /\ ~_container)
          => /\ ~built
             /\ ~thrown
             /\ _subscription = 0
             /\ live = {}
             /\ sseOpen = {}
             /\ UnsettledNow = 0
             /\ list = <<>>)
  /\ [][(constructed /\ ~_container /\ last' = "destroy")
          => UNCHANGED stateVars]_vars

\* an inert widget on which destroy() has been called
C6_Witness ==
  /\ constructed
  /\ ~_container
  /\ ~built
  /\ destroyCalls >= 1

\* C7: after a failed fetch has been handled the list holds exactly the
\* retry-pending item and the counter reads 0.
C7_FailShowsRetry ==
  last = "fail" => (list = <<ErrorItem("retry")>> /\ counter = 0)

\* C8: handling a failed fetch keeps the pipeline: the subscription and the
\* push connection stay as they are, every later tick starts a fetch, and a
\* later successful fetch is rendered and counted.
C8_FailureKeepsPipeline ==
  /\ []((fails > 0 /\ destroyCalls = 0 /\ ~pipeFailed)
          => (_subscription \in live /\ _subscription \in sseOpen))
  /\ [][/\ last' = "fail" =>
             (live' = live /\ sseOpen' = sseOpen
                /\ _subscription' = _subscription)
        /\ (fails > 0 /\ last' \in {"push", "timer"} /\ ~pipeFailed')
             => /\ UnsettledNow' = UnsettledNow + 1
                /\ pending'[_subscription] = pending[_subscription] + 1
                /\ inner'[_subscription]
        /\ (fails > 0 /\ last' = "ok")
             => \/ list' = <<EmptyItem>> /\ counter' = 0
                \/ /\ Len(list') > 0
                   /\ MsgItems(list') = 1..Len(list')
                   /\ counter' = Len(list')
                   /\ _existingMessageIds' =
                        {list'[i].id : i \in 1..Len(list')}]_vars

\* after two failed fetches a later fetch succeeded and its messages are
\* shown and counted
C8_Witness ==
  /\ fails >= 2
  /\ last = "ok"
  /\ Len(list) > 0
  /\ MsgItems(list) = 1..Len(list)
  /\ counter = Len(list)
  /\ _subscription \in live

\* C9: once the outer catchError has handled an error the stream is over:
\* no subscription is live, no push connection is open, and no later step
\* starts a fetch or changes the list or the counter.
C9_StreamFailureTerminates ==
  /\ [](pipeFailed => (live = {} /\ sseOpen = {}))
  /\ [][pipeFailed
          => /\ UNCHANGED <<list, counter>>
             /\ UnsettledNow' <= UnsettledNow]_vars

\* the stream failed on a tick while a fetch was unsettled, and that fetch
\* was settled afterwards
C9_Witness ==
  /\ pipeFailed
  /\ last = "stale"
  /\ destroyCalls = 0
  /\ _subscription # 0
  /\ fails >= 1

\* C10: the first render pass that populates the list marks no item new,
\* whatever empty results or failed fetches were handled before it.
C10_InitialLoadSuppression ==
  [][(passes = 0 /\ passes' = 1)
       => \A i \in 1..Len(list') : ~list'[i].new]_vars

\* the first populating render pass came after a failed fetch
C10_Witness ==
  /\ passes = 1
  /\ last = "ok"
  /\ fails >= 1
  /\ Len(list) >= 2
  /\ \A i \in 1..Len(list) : list[i].kind = "msg" /\ ~list[i].new

\* C11: on a render pass of a non-empty sequence made while the initial-load
\* flag is false, an item is marked new exactly when its id is not in the
\* seen-id set the previous render left.
C11_NewIffUnseen ==
  [][(last' = "ok" /\ answered'.msgs # <<>> /\ ~_isInitialLoad)
       => \A i \in 1..Len(list') :
            list'[i].new <=> list'[i].id \notin _existingMessageIds]_vars

\* a later pass has marked one item new and left another one unmarked
C11_Witness ==
  /\ last = "ok"
  /\ passes = 2
  /\ \E i, j \in MsgItems(list) : list[i].new /\ ~list[j].new

\* C12: after the render pass of a non-empty sequence the list holds one
\* item per message and nothing else, and the ids read from the top are
\* the ids of the sequence in reversed order.
C12_ReversedItems ==
  (last = "ok" /\ answered.msgs # <<>>)
    => /\ Len(list) = Len(answered.msgs)
       /\ \A i \in 1..Len(list) :
            /\ list[i].kind = "msg"
            /\ list[i].id = answered.msgs[Len(list) - i + 1]

\* a second pass has rendered two messages over an earlier render
C12_Witness ==
  /\ last = "ok"
  /\ passes = 2
  /\ Len(answered.msgs) >= 2
  /\ list[1].id # list[2].id

\* C13: the counter shows the number of messages of the most recent
\* emission: the length of the fetched sequence on success, 0 on every
\* failure path, and 0 until the first outcome.
C13_CounterShowsLastEmission ==
  counter = IF answered.tag = "ok" THEN Len(answered.msgs) ELSE 0

\* C14: after a fetch that succeeds with an empty sequence the list holds
\* exactly one empty-state item and the counter reads 0, whatever was
\* shown before.
C14_EmptyShowsPlaceholder ==
  (last = "ok" /\ answered.msgs = <<>>)
    => (list = <<EmptyItem>> /\ counter = 0)

\* the empty sequence has come after messages had been rendered
C14_Witness ==
  /\ last = "ok"
  /\ answered.msgs = <<>>
  /\ _existingMessageIds # {}
  /\ list = <<EmptyItem>>

\* C15: between handlers the list of a built widget shows exactly one of
\* the loader, a populated list, the empty-state item, the retry message
\* or the unavailable message, and is never without children.
C15_ListShowsOneState ==
  built =>
    \/ list = <<LoaderItem>>
    \/ list = <<EmptyItem>>
    \/ list = <<ErrorItem("retry")>>
    \/ list = <<ErrorItem("unavailable")>>
    \/ (list # <<>> /\ \A i \in 1..Len(list) : list[i].kind = "msg")

\* C16: every per-tick fetch failure (transport error, non-OK status,
\* malformed payload, a parsed body without the message array) leaves the
\* retry message in the list, raises nothing and keeps the pipeline live.
C16_FailureIsRecoverable ==
  (last \in {"fail", "undef"}
     /\ answered.kind \in {"network", "status", "unparsable", "nomessages"})
    => /\ list = <<ErrorItem("retry")>>
       /\ ~unhandled
       /\ _subscription \in live

\* C17: a call of getUnreadMessages yields a message sequence or a failure
\* and nothing else, and a transport error or a non-OK status yields the
\* failure.
C17_SequenceOrFailure ==
  answered.kind # "none"
    => /\ answered.tag \in {"ok", "fail"}
       /\ answered.kind \in {"network", "status"} => answered.tag = "fail"

\* C18: a connection error of the push source changes nothing in the
\* pipeline or on the page (it is only logged), and a push event that
\* comes right after it still makes a tick: a fetch is started, or the
\* service call throws and the stream fails for that reason.
C18_SseErrorSwallowed ==
  [][/\ last' = "sseerror" => UNCHANGED stateVars
     /\ (last = "sseerror" /\ last' = "push")
          => (UnsettledNow' = UnsettledNow + 1 \/ answered' = StreamFailed)
    ]_vars

\* the error has happened on the open connection of a live pipeline that
\* has already rendered messages
C18_Witness ==
  /\ last = "sseerror"
  /\ _subscription \in live
  /\ _subscription \in sseOpen
  /\ passes >= 1

\* the step is a period of the timer that starts a fetch
TimerStartsFetch ==
  /\ last' = "timer"
  /\ UnsettledNow' = UnsettledNow + 1

\* C19: unless the subscription ends (destroy or stream failure), the timer
\* starts a new fetch again and again, whether push events come or not.
C19_TimerProgress ==
  (<>[](live = {})) \/ ([]<><<TimerStartsFetch>>_vars)

\* a period of the timer has started a fetch after an earlier outcome
C19_Witness ==
  /\ last = "timer"
  /\ _subscription \in live
  /\ inner[_subscription]
  /\ answered.tag # "none"

\* body is the part of full that is left when blanks, and only
\* blanks, are cut off at both ends until none is left there
IsTrimOf(body, full) ==
  /\ body # <<>> => (body[1] # Blank /\ body[Len(body)] # Blank)
  /\ \E lead \in 0..Len(full) :
       /\ lead + Len(body) <= Len(full)
       /\ \A k \in 1..Len(body) : body[k] = full[lead + k]
       /\ \A k \in 1..Len(full) :
            (k <= lead \/ k > lead + Len(body)) => full[k] = Blank

\* C20 as stated: a subject of at most 15 characters is returned unchanged,
\* a longer one as exactly its first 15 characters and one ellipsis, 16
\* characters in all.
C20_TruncateExact ==
  last = "truncate"
    => IF Len(subject) <= DefaultMaxLength
       THEN truncated = subject
       ELSE /\ truncated
                 = Append(SubSeq(subject, 1, DefaultMaxLength), Ellipsis)
            /\ Len(truncated) = DefaultMaxLength + 1

\* C20: a subject of at most 15 characters is returned unchanged; a longer
\* one as its first 15 characters without their leading and trailing
\* blanks, followed by one ellipsis: at most 16 characters.
C20_TruncateTrimmed ==
  last = "truncate"
    => IF Len(subject) <= DefaultMaxLength
       THEN truncated = subject
       ELSE /\ Len(truncated) \in 1..(DefaultMaxLength + 1)
            /\ truncated[Len(truncated)] = Ellipsis
            /\ IsTrimOf(SubSeq(truncated, 1, Len(truncated) - 1),
                        SubSeq(subject, 1, DefaultMaxLength))

\* a long subject whose 15th character is a blank has been cut shorter
C20_Witness ==
  /\ last = "truncate"
  /\ Len(subject) > DefaultMaxLength
  /\ subject[1] # Blank
  /\ subject[DefaultMaxLength] = Blank
  /\ Len(truncated) < DefaultMaxLength + 1

\* C21: truncating what truncateText returned, with the same bound, gives
\* the same string again.
C21_TruncateIdempotent ==
  last = "retruncate" => retruncated = truncated

\* the second call got a string of 16 characters, longer than the bound
C21_Witness ==
  /\ last = "retruncate"
  /\ Len(subject) > DefaultMaxLength
  /\ Len(truncated) = DefaultMaxLength + 1

\* C22 as stated: the seen-id set is empty at construction, and after every
\* successful render pass, of an empty sequence or not, it is the set of
\* the ids just rendered.
C22_SeenIdsAlwaysReplaced ==
  /\ answered.tag = "none" => _existingMessageIds = {}
  /\ last = "ok" => _existingMessageIds = Range(answered.msgs)

\* C22: the seen-id set is empty until the first render pass of a non-empty
\* sequence; such a pass replaces it by the set of the ids just rendered,
\* and the render pass of an empty sequence leaves it as it was.
C22_SeenIdsReplacedWhenPopulated ==
  /\ [](passes = 0 => _existingMessageIds = {})
  /\ [][/\ (last' = "ok" /\ answered'.msgs # <<>>)
            => _existingMessageIds' = Range(answered'.msgs)
        /\ (last' = "ok" /\ answered'.msgs = <<>>)
            => _existingMessageIds' = _existingMessageIds
       ]_vars

\* a later populated pass has rendered a single id that was not among the
\* seen ones, and the seen ids are now that id alone
C22_Witness ==
  /\ last = "ok"
  /\ passes = 2
  /\ Len(answered.msgs) = 1
  /\ Cardinality(_existingMessageIds) = 1
  /\ \E i \in MsgItems(list) : list[i].new

\* C23 as stated: the initial-load flag is true before the first successful
\* render pass, false after it whatever that pass rendered, and never true
\* again.
C23_InitialUntilFirstRender ==
  /\ [](last = "ok" => ~_isInitialLoad)
  /\ [][/\ ~_isInitialLoad => ~_isInitialLoad'
        /\ (_isInitialLoad /\ ~_isInitialLoad') => last' = "ok"]_vars

\* C23: the initial-load flag is true exactly until the first render pass
\* of a non-empty sequence has completed (a pass of an empty sequence
\* leaves it as it is), and once false it never becomes true again.
C23_InitialUntilFirstPopulated ==
  /\ [](_isInitialLoad <=> passes = 0)
  /\ [][~_isInitialLoad => ~_isInitialLoad']_vars

\* an empty sequence has been rendered and the initial load is not over
C23_Witness ==
  /\ last = "ok"
  /\ answered.msgs = <<>>
  /\ _isInitialLoad
  /\ list = <<EmptyItem>>

\* C24: the handling of a failed fetch changes neither the seen-id set nor
\* the initial-load flag, so an id rendered before the failure is not
\* marked new by the successful pass that comes after it.
C24_FailureKeepsSeenIds ==
  [][/\ last' \in {"fail", "undef"}
          => UNCHANGED <<_existingMessageIds, _isInitialLoad>>
     /\ (last' = "ok" /\ fails >= 1)
          => \A i \in MsgItems(list') :
               list'[i].id \in _existingMessageIds => ~list'[i].new
    ]_vars

\* a fetch has failed after messages had been rendered, and their ids are
\* still the seen ones
C24_Witness ==
  /\ last = "fail"
  /\ passes >= 1
  /\ _existingMessageIds # {}
  /\ ~_isInitialLoad

\* C25: after a failure of the pipeline has been handled the list shows
\* exactly the unavailable message, and keeps showing it.
C25_UnavailableShown ==
  pipeFailed => list = <<ErrorItem("unavailable")>>

\* C26: on a live pipeline every tick, a push event or a period of the
\* timer, starts one new fetch, also while earlier fetches are unsettled;
\* the only tick without one is the tick on which the service call throws
\* and the stream fails.
C26_EveryTickFetches ==
  [][(last' \in {"push", "timer"} /\ ~pipeFailed')
       => /\ UnsettledNow' = UnsettledNow + 1
          /\ \E s \in live : /\ pending'[s] = pending[s] + 1
                            /\ inner'[s]
    ]_vars

\* a push event has started a third fetch while two were unsettled
C26_Witness ==
  /\ last = "push"
  /\ _subscription \in live
  /\ pending[_subscription] = 3
  /\ inner[_subscription]

C28_LoaderUntilOutcome ==
  (built /\ answered.tag = "none") => list = <<LoaderItem>>

\* ticks have come and a dropped fetch has been settled, and no outcome has
\* been handled yet
C28_Witness ==
  /\ built
  /\ answered.tag = "none"
  /\ last = "stale"
  /\ _subscription \in live
  /\ inner[_subscription]

\* C29: once destroy() has been called, no step starts a fetch or changes
\* the list, the counter, the seen-id set or the initial-load flag: not the
\* settlement of a fetch that was unsettled at destroy(), not a push event,
\* not a period of the timer.
C29_NothingAfterDestroy ==
  [][destroyCalls >= 1
       => /\ UNCHANGED renderVars
          /\ UnsettledNow' <= UnsettledNow]_vars

\* a fetch that was unsettled at destroy() has been settled afterwards, on
\* a widget that had rendered messages
C29_Witness ==
  /\ destroyCalls = 1
  /\ last = "stale"
  /\ ~pipeFailed
  /\ passes >= 1
  /\ orphans = 0

\* C30: at most one push connection is open, and a connection is open
\* exactly while its pipeline is live: none after destroy() and none after
\* the stream has terminated on a failure of the pipeline.
C30_PushOpenWhileLive ==
  /\ Cardinality(sseOpen) <= 1
  /\ sseOpen = live
  /\ pipeFailed => sseOpen = {}
  /\ last = "destroy" => sseOpen = {}

\* the stream of a pipeline that had rendered messages has failed on a
\* tick, and its connection is closed
C30_Witness ==
  /\ pipeFailed
  /\ last \in {"push", "timer"}
  /\ passes >= 1
  /\ _subscription # 0
  /\ sseOpen = {}

=============================================================================
